---- MODULE Spec2Model ----
(***************************************************************************)
(* The recorder component (homeassistant/components/recorder/__init__.py): *)
(* one worker thread (Recorder.run) that connects to storage with retries, *)
(* opens a run record, waits for the host to start, and then consumes one  *)
(* shared queue of events, purge markers and the stop marker, while the    *)
(* host's threads enqueue, start, stop and wait on the drain barrier.      *)
(***************************************************************************)
EXTENDS Integers, Sequences, FiniteSets, TLC

(***************************************************************************)
(* Bounds of the model.                                                    *)
(***************************************************************************)
\* How many events and purge markers the host may enqueue in one behaviour,
\* and how many setup attempts the storage may fail.
MaxItems == 2
MaxFaults == 1
\* Failed setup attempts in the behaviours that exercise the setup loop to
\* its end: more than the loop can take.
SetupFaults == 11
\* Items in the behaviours that exercise every filter configuration.
FilterItems == 1
\* The latest point in time a caller asks run_information about.
MaxTime == 5

(***************************************************************************)
(* Program constants.                                                      *)
(***************************************************************************)
\* retry = locals().setdefault('retry', 10) - 1
DefaultRetry == 10
\* Python's None for the integer-valued fields (ids, timestamps, retry).
None == -1

EVENT_TIME_CHANGED == "time_changed"
EVENT_STATE_CHANGED == "state_changed"
ATTR_ENTITY_ID == "entity_id"

(***************************************************************************)
(* Names are token sequences, so that an entity id really contains its     *)
(* domain and split_entity_id really splits it.                            *)
(***************************************************************************)
Dot == "."
LightKitchen == <<"light", Dot, "kitchen">>
LightHallway == <<"light", Dot, "hallway">>
SensorY == <<"sensor", Dot, "y">>
Light == <<"light">>
Sensor == <<"sensor">>

EntityIds == {LightKitchen, LightHallway, SensorY}

\* split_entity_id(entity_id): entity_id.split(".", 1)
split_entity_id(entity_id) ==
    LET p == CHOOSE i \in 1..Len(entity_id) :
                 /\ entity_id[i] = Dot
                 /\ \A j \in 1..(i - 1) : entity_id[j] # Dot
    IN  <<SubSeq(entity_id, 1, p - 1), SubSeq(entity_id, p + 1, Len(entity_id))>>

(***************************************************************************)
(* Queue items: events, the purge marker, the stop marker (None).          *)
(* event.data is a mapping, kept as a set of <<key, value>> pairs.         *)
(***************************************************************************)
Event(type, data) == [kind |-> "event", event_type |-> type, data |-> data]
purge_task == [kind |-> "purge_task", event_type |-> "", data |-> {}]
NoneItem == [kind |-> "None", event_type |-> "", data |-> {}]
\* The worker's local `event` before the first queue.get().
NoEvent == [kind |-> "unbound", event_type |-> "", data |-> {}]

\* The events of the model: the time tick, an event without an entity, the
\* state changes of the entities, and an event that names an entity without
\* being a state change.
TimeChanged == Event(EVENT_TIME_CHANGED, {})
ServiceRegistered == Event("service_registered", {})
StateChanged(e) == Event(EVENT_STATE_CHANGED, {<<ATTR_ENTITY_ID, e>>})
LogbookEntry(e) == Event("logbook_entry", {<<ATTR_ENTITY_ID, e>>})
BusEvents ==
    {TimeChanged, ServiceRegistered, LogbookEntry(LightHallway)}
    \cup {StateChanged(e) : e \in EntityIds}

\* key in mapping
HasKey(data, key) == \E kv \in data : kv[1] = key
\* mapping[key]
Lookup(data, key) == (CHOOSE kv \in data : kv[1] = key)[2]

\* x in a Python list
In(x, list) == \E i \in 1..Len(list) : list[i] = x
\* truthiness of a Python list
Truthy(list) == Len(list) > 0

VARIABLES
    \* Recorder.__init__
    purge_days, recording_start, include_e, include_d, exclude,
    \* the environment: how many items the host produces, how many setup
    \* attempts the storage fails, which events the bus fires
    max_items, max_faults, bus,
    queue, unfinished_tasks, engine, get_session, run_info, async_db_ready,
    \* Recorder.run: position and locals
    pc, retry, event, hass_started,
    \* host: core state, listeners, pending loop callbacks, stop handler
    hass_state, stop_listener, start_listener, purge_timer,
    job_pending, ready_scheduled, sd_pc, was_running,
    \* a host thread in block_till_done
    barrier_pc, barrier_mark,
    \* storage
    runs, events, states,
    \* the clock read by dt_util.utcnow()
    now,
    \* history: everything ever put and what became of it, the place in it of
    \* the worker's current item, the steps of the current setup attempt,
    \* counters
    enq, fate, event_seq, attempt, connects, migrate_calls, failures,
    notifications, exit, engines_live, prior_runs, setups_ok, current_run_id, purge_calls,
    \* a host thread's call of run_information: its argument, how it ended,
    \* what it returned, and where the worker was at that moment
    ri_arg, ri_outcome, ri_res, ri_pc

vars == <<purge_days, recording_start, include_e, include_d, exclude,
          max_items, max_faults, bus,
          queue, unfinished_tasks, engine, get_session, run_info,
          async_db_ready, pc, retry, event, hass_started,
          hass_state, stop_listener, start_listener, purge_timer,
          job_pending, ready_scheduled, sd_pc, was_running,
          barrier_pc, barrier_mark,
          runs, events, states, now,
          enq, fate, event_seq, attempt, connects, migrate_calls, failures,
          notifications, exit, engines_live, prior_runs, setups_ok, current_run_id, purge_calls,
          ri_arg, ri_outcome, ri_res, ri_pc>>

configVars == <<purge_days, recording_start, include_e, include_d, exclude,
                prior_runs, max_items, max_faults, bus>>
storeVars == <<runs, events, states>>
hostVars == <<hass_state, stop_listener, start_listener, purge_timer,
              job_pending, ready_scheduled, sd_pc, was_running>>
barrierVars == <<barrier_pc, barrier_mark>>
queueVars == <<queue, unfinished_tasks, enq, fate>>
setupHist == <<attempt, connects, migrate_calls, failures, notifications,
               engines_live, setups_ok, current_run_id>>
queryVars == <<ri_arg, ri_outcome, ri_res, ri_pc>>


(***************************************************************************)
(* Initial state: the Recorder object as __init__ leaves it, the host not  *)
(* yet started, and whatever an earlier session left in storage.           *)
(***************************************************************************)
Run(id, start, end, created, closed) ==
    [run_id |-> id, start |-> start, end |-> end, created |-> created,
     closed_incorrect |-> closed]

\* What earlier sessions may have left in the runs table: nothing, a run
\* closed in order, runs left open by sessions that were killed.
PriorStores ==
    { <<>>,
      <<Run(1, 1, 2, 1, FALSE), Run(2, 2, None, 2, FALSE)>>,
      <<Run(1, 1, None, 1, FALSE), Run(2, 2, None, 2, FALSE)>> }

InitWith(configs, stores, purges, items, faults, fired) ==
    /\ bus = fired
    /\ max_items = items
    /\ max_faults = faults
    /\ \E c \in configs :
          /\ include_e = c.ie
          /\ include_d = c.id
          /\ exclude = c.xe \o c.xd
    /\ purge_days \in purges
    /\ prior_runs \in stores
    /\ runs = prior_runs
    /\ recording_start = 3
    /\ now = 4
    /\ queue = <<>>
    /\ unfinished_tasks = 0
    /\ engine = None
    /\ get_session = None
    /\ run_info = <<>>
    /\ async_db_ready = FALSE
    /\ pc = "setup_connection"
    /\ retry = None
    /\ event = NoEvent
    /\ hass_started = "pending"
    /\ hass_state = "not_running"
    /\ stop_listener = FALSE
    /\ start_listener = FALSE
    /\ purge_timer = FALSE
    /\ job_pending = FALSE
    /\ ready_scheduled = FALSE
    /\ sd_pc = "idle"
    /\ was_running = FALSE
    /\ barrier_pc = "idle"
    /\ barrier_mark = 0
    /\ events = <<>>
    /\ states = <<>>
    /\ enq = <<>>
    /\ fate = <<>>
    /\ event_seq = 0
    /\ attempt = <<>>
    /\ connects = 0
    /\ migrate_calls = 0
    /\ failures = 0
    /\ notifications = 0
    /\ exit = "alive"
    /\ engines_live = 0
    /\ setups_ok = 0
    /\ current_run_id = None
    /\ purge_calls = 0
    /\ ri_arg = None
    /\ ri_outcome = "idle"
    /\ ri_res = <<>>
    /\ ri_pc = ""

Init ==
    InitWith({[ie |-> <<LightKitchen>>, id |-> <<>>, xe |-> <<>>,
               xd |-> <<Light>>]},
             {<<Run(1, 1, 2, 1, FALSE), Run(2, 2, None, 2, FALSE)>>},
             {1}, MaxItems, MaxFaults,
             {TimeChanged, ServiceRegistered, StateChanged(LightKitchen),
              StateChanged(LightHallway)})

(***************************************************************************)
(* Recorder.run, lines 159-174: the connection setup loop.                 *)
(***************************************************************************)
workerRest == <<event, event_seq, hass_started>>

\* self._setup_connection() returns: a new engine and a session factory on it.
SetupConnection ==
    /\ pc = "setup_connection"
    /\ engine' = failures + 1
    /\ get_session' = failures + 1
    /\ engines_live' = engines_live + 1
    /\ attempt' = <<"connect">>
    /\ pc' = "migrate"
    /\ connects' = connects + 1
    /\ UNCHANGED <<configVars, queryVars, storeVars, hostVars, barrierVars, queueVars,
                   workerRest, run_info, async_db_ready, retry, now, failures,
                   notifications, exit, setups_ok, current_run_id,
                   purge_calls, migrate_calls>>

\* self._setup_connection() raises: in create_engine (nothing assigned yet) or
\* in create_all (self.engine already assigned, the session factory not).
SetupConnectionFails ==
    /\ pc = "setup_connection"
    /\ failures < max_faults
    /\ \/ UNCHANGED <<engine, engines_live>>
       \/ /\ engine' = failures + 1
          /\ engines_live' = engines_live + 1
    /\ attempt' = <<>>
    /\ pc' = "except"
    /\ UNCHANGED <<configVars, queryVars, storeVars, hostVars, barrierVars, queueVars,
                   workerRest, get_session, run_info, async_db_ready, retry,
                   now, failures, notifications, exit, setups_ok,
                   current_run_id, purge_calls,
                   connects, migrate_calls>>

\* migration.migrate_schema(self) returns.
MigrateSchema ==
    /\ pc = "migrate"
    /\ attempt' = Append(attempt, "migrate")
    /\ pc' = "setup_run"
    /\ migrate_calls' = migrate_calls + 1
    /\ UNCHANGED <<configVars, queryVars, storeVars, hostVars, barrierVars, queueVars,
                   workerRest, engine, get_session, run_info, async_db_ready,
                   retry, now, failures, notifications, exit,
                   engines_live, setups_ok, current_run_id, purge_calls,
                   connects>>

\* A failed migration that is ignored: on to the run setup.
MigrateSchemaFailsIgnored ==
    /\ pc = "migrate"
    /\ failures < max_faults
    /\ migrate_calls' = migrate_calls + 1
    /\ pc' = "setup_run"
    /\ UNCHANGED <<configVars, queryVars, storeVars, hostVars, barrierVars, queueVars,
                   workerRest, engine, get_session, run_info, async_db_ready,
                   retry, now, attempt, connects, failures, notifications,
                   engines_live, setups_ok, current_run_id, exit,
                   purge_calls>>

\* migration.migrate_schema(self) raises.
MigrateSchemaFails ==
    /\ pc = "migrate"
    /\ failures < max_faults
    /\ migrate_calls' = migrate_calls + 1
    /\ pc' = "except"
    /\ UNCHANGED <<configVars, queryVars, storeVars, hostVars, barrierVars, queueVars,
                   workerRest, engine, get_session, run_info, async_db_ready,
                   retry, now, attempt, connects, failures, notifications,
                   engines_live, setups_ok, current_run_id, exit,
                   purge_calls>>

\* Unfinished runs closed at the time of the recovery, not at the start of
\* the recording.
CloseUnfinishedAtNow(table) ==
    [i \in 1..Len(table) |->
        IF table[i].end = None
        THEN [table[i] EXCEPT !.closed_incorrect = TRUE, !.end = now]
        ELSE table[i]]

\* Unfinished runs left as they are.
CloseUnfinishedNone(table) == table

\* for run in session.query(RecorderRuns).filter_by(end=None): close it.
CloseUnfinished(table) ==
    [i \in 1..Len(table) |->
        IF table[i].end = None
        THEN [table[i] EXCEPT !.closed_incorrect = TRUE,
                              !.end = recording_start]
        ELSE table[i]]

\* RecorderRuns(start=self.recording_start, created=dt_util.utcnow()),
\* with the run_id the flush gives it.
NewRun(id) == Run(id, recording_start, None, now, FALSE)

\* self._setup_run() returns: the scope commits.
SetupRun ==
    /\ pc = "setup_run"
    /\ runs' = Append(CloseUnfinished(runs), NewRun(Len(runs) + 1))
    /\ run_info' = <<NewRun(Len(runs) + 1)>>
    /\ now' = now + 1
    /\ attempt' = Append(attempt, "setup_run")
    /\ setups_ok' = setups_ok + 1
    /\ current_run_id' = Len(runs) + 1
    /\ pc' = "signal"
    /\ UNCHANGED <<configVars, queryVars, events, states, hostVars, barrierVars,
                   queueVars, workerRest, engine, get_session,
                   async_db_ready, retry, failures, notifications,
                   exit, engines_live, purge_calls,
                   connects, migrate_calls>>

\* self._setup_run() raises: at the query (self.run_info untouched) or at the
\* flush (self.run_info already the new, unsaved record); the scope rolls back.
SetupRunFails ==
    /\ pc = "setup_run"
    /\ failures < max_faults
    /\ \/ UNCHANGED run_info
       \/ run_info' = <<NewRun(None)>>
    /\ pc' = "except"
    /\ UNCHANGED <<configVars, queryVars, storeVars, hostVars, barrierVars, queueVars,
                   workerRest, engine, get_session, async_db_ready, retry,
                   now, setupHist, exit, purge_calls>>

\* self.hass.loop.call_soon_threadsafe(self.async_db_ready.set); break
SignalReady ==
    /\ pc = "signal"
    /\ ready_scheduled' = TRUE
    /\ attempt' = Append(attempt, "signal")
    /\ pc' = "add_job"
    /\ UNCHANGED <<configVars, queryVars, storeVars, hass_state, stop_listener,
                   start_listener, purge_timer, job_pending, sd_pc,
                   barrierVars, queueVars, workerRest, engine, get_session,
                   run_info, async_db_ready, retry, now, failures,
                   notifications, exit, engines_live, setups_ok,
                   current_run_id, purge_calls,
                   was_running,
                   connects, migrate_calls>>

\* call_soon_threadsafe raises: the host has stopped and closed its loop.
SignalReadyFails ==
    /\ pc = "signal"
    /\ failures < max_faults
    /\ hass_state = "stopped"
    /\ pc' = "except"
    /\ UNCHANGED <<configVars, queryVars, storeVars, hostVars, barrierVars, queueVars,
                   workerRest, engine, get_session, run_info, async_db_ready,
                   retry, now, setupHist, exit, purge_calls>>

\* A count that starts again from the default at every failure.
locals_setdefault_fresh == DefaultRetry

\* locals().setdefault('retry', 10): locals() is a snapshot of the frame's
\* bound locals, so the default is taken only while retry is unbound.
locals_setdefault_retry == IF retry = None THEN DefaultRetry ELSE retry

\* except Exception: log, sleep, count down, give up at 0.
Except ==
    /\ pc = "except"
    /\ retry' = locals_setdefault_retry - 1
    /\ failures' = failures + 1
    /\ IF retry' = 0
       THEN /\ notifications' = notifications + 1
            /\ pc' = "done"
            /\ exit' = "failed_fatally"
       ELSE /\ pc' = "setup_connection"
            /\ UNCHANGED <<notifications, exit>>
    /\ UNCHANGED <<configVars, queryVars, storeVars, hostVars, barrierVars, queueVars,
                   workerRest, engine, get_session, run_info, async_db_ready,
                   now, attempt, engines_live, setups_ok,
                   current_run_id, purge_calls,
                   connects, migrate_calls>>


setupVars == <<engine, get_session, run_info, retry, setupHist>>

(***************************************************************************)
(* Recorder.run, lines 176-218: the startup gate.                          *)
(***************************************************************************)
\* self.hass.add_job(register); the worker then blocks in
\* hass_started.result().
AddJob ==
    /\ pc = "add_job"
    /\ job_pending' = TRUE
    /\ pc' = "wait_started"
    /\ UNCHANGED <<configVars, queryVars, storeVars, hass_state, stop_listener,
                   start_listener, purge_timer, ready_scheduled, sd_pc,
                   barrierVars, queueVars, workerRest, setupVars,
                   async_db_ready, now, exit, purge_calls,
                   was_running>>

\* add_job raises (the host's loop is closed): the thread ends in the
\* exception.
AddJobFails ==
    /\ pc = "add_job"
    /\ hass_state = "stopped"
    /\ pc' = "done"
    /\ exit' = "exception"
    /\ UNCHANGED <<configVars, queryVars, storeVars, hostVars, barrierVars, queueVars,
                   workerRest, setupVars, async_db_ready, now, purge_calls>>

\* register(), run on the host's loop.
Register ==
    /\ job_pending
    /\ hass_state # "stopped"
    /\ job_pending' = FALSE
    /\ stop_listener' = TRUE
    /\ IF hass_state = "running"
       THEN /\ hass_started' = "None"
            /\ UNCHANGED start_listener
       ELSE /\ start_listener' = TRUE
            /\ UNCHANGED hass_started
    /\ purge_timer' = (purge_days # None)
    /\ UNCHANGED <<configVars, queryVars, storeVars, hass_state, ready_scheduled, sd_pc,
                   barrierVars, queueVars, event, event_seq, setupVars,
                   async_db_ready, pc, now, exit, purge_calls,
                   was_running>>

\* A gate that does not look at the result it waited for.
WaitStartedIgnoresResult ==
    /\ pc = "wait_started"
    /\ hass_started # "pending"
    /\ pc' = "get"
    /\ UNCHANGED <<configVars, queryVars, storeVars, hostVars, barrierVars, queueVars,
                   workerRest, setupVars, async_db_ready, now, exit,
                   purge_calls>>

\* result = hass_started.result(); if result is shutdown_task: return
WaitStarted ==
    /\ pc = "wait_started"
    /\ hass_started # "pending"
    /\ IF hass_started = "shutdown_task"
       THEN /\ pc' = "done"
            /\ exit' = "shutdown_before_start"
       ELSE /\ pc' = "get"
            /\ UNCHANGED exit
    /\ UNCHANGED <<configVars, queryVars, storeVars, hostVars, barrierVars, queueVars,
                   workerRest, setupVars, async_db_ready, now, purge_calls>>

(***************************************************************************)
(* The host: start, stop, the loop callbacks, the producers.               *)
(***************************************************************************)
\* EVENT_HOMEASSISTANT_START: notify_hass_started, when it is listening.
HassStart ==
    /\ hass_state = "not_running"
    /\ hass_state' = "running"
    /\ IF start_listener
       THEN /\ hass_started' = "None"
            /\ start_listener' = FALSE
       ELSE UNCHANGED <<hass_started, start_listener>>
    /\ was_running' = TRUE
    /\ UNCHANGED <<configVars, queryVars, storeVars, stop_listener, purge_timer,
                   job_pending, ready_scheduled, sd_pc, barrierVars,
                   queueVars, event, event_seq, setupVars, async_db_ready,
                   pc, now, exit, purge_calls>>

\* EVENT_HOMEASSISTANT_STOP: shutdown(event) starts, when it is listening.
HassStop ==
    /\ hass_state \in {"not_running", "running"}
    /\ hass_state' = "stopping"
    /\ IF stop_listener
       THEN /\ sd_pc' = "check"
            /\ stop_listener' = FALSE
       ELSE UNCHANGED <<sd_pc, stop_listener>>
    /\ UNCHANGED <<configVars, queryVars, storeVars, start_listener, purge_timer,
                   job_pending, ready_scheduled, barrierVars, queueVars,
                   workerRest, setupVars, async_db_ready, pc, now, exit,
                   purge_calls,
                   was_running>>

\* if not hass_started.done(): hass_started.set_result(shutdown_task)
ShutdownSetResult ==
    /\ sd_pc = "check"
    /\ hass_started' = IF hass_started = "pending" THEN "shutdown_task"
                       ELSE hass_started
    /\ sd_pc' = "put"
    /\ UNCHANGED <<configVars, queryVars, storeVars, hass_state, stop_listener,
                   start_listener, purge_timer, job_pending, ready_scheduled,
                   barrierVars, queueVars, event, event_seq, setupVars,
                   async_db_ready, pc, now, exit, purge_calls,
                   was_running>>

\* A put at the head of the queue.
PutFirst(item) ==
    /\ queue' = <<[item |-> item, seq |-> Len(enq) + 1]>> \o queue
    /\ unfinished_tasks' = unfinished_tasks + 1
    /\ enq' = Append(enq, item)
    /\ fate' = Append(fate, "queued")

\* queue.Queue.put(item): append, and count one more unfinished task.
Put(item) ==
    /\ queue' = Append(queue, [item |-> item, seq |-> Len(enq) + 1])
    /\ unfinished_tasks' = unfinished_tasks + 1
    /\ enq' = Append(enq, item)
    /\ fate' = Append(fate, "queued")

\* self.queue.put(None)
ShutdownPut ==
    /\ sd_pc = "put"
    /\ Put(NoneItem)
    /\ sd_pc' = "join"
    /\ UNCHANGED <<configVars, queryVars, storeVars, hass_state, stop_listener,
                   start_listener, purge_timer, job_pending, ready_scheduled,
                   barrierVars, workerRest, setupVars, async_db_ready, pc,
                   now, exit, purge_calls,
                   was_running>>

\* A stop handler that returns without waiting for the worker thread.
ShutdownJoinAtOnce ==
    /\ sd_pc = "join"
    /\ sd_pc' = "returned"
    /\ UNCHANGED <<configVars, queryVars, storeVars, hass_state, stop_listener,
                   start_listener, purge_timer, job_pending, ready_scheduled,
                   barrierVars, queueVars, workerRest, setupVars,
                   async_db_ready, pc, now, exit, purge_calls,
                   was_running>>

\* self.join() returns once the worker thread has ended.
ShutdownJoin ==
    /\ sd_pc = "join"
    /\ pc = "done"
    /\ sd_pc' = "returned"
    /\ UNCHANGED <<configVars, queryVars, storeVars, hass_state, stop_listener,
                   start_listener, purge_timer, job_pending, ready_scheduled,
                   barrierVars, queueVars, workerRest, setupVars,
                   async_db_ready, pc, now, exit, purge_calls,
                   was_running>>

\* The host finishes stopping, once its stop listeners have returned.
HassStopped ==
    /\ hass_state = "stopping"
    /\ sd_pc \in {"idle", "returned"}
    /\ hass_state' = "stopped"
    /\ UNCHANGED <<configVars, queryVars, storeVars, stop_listener, start_listener,
                   purge_timer, job_pending, ready_scheduled, sd_pc,
                   barrierVars, queueVars, workerRest, setupVars,
                   async_db_ready, pc, now, exit, purge_calls,
                   was_running>>

\* self.async_db_ready.set, run on the host's loop.
DbReadySet ==
    /\ ready_scheduled
    /\ hass_state # "stopped"
    /\ ready_scheduled' = FALSE
    /\ async_db_ready' = TRUE
    /\ UNCHANGED <<configVars, queryVars, storeVars, hass_state, stop_listener,
                   start_listener, purge_timer, job_pending, sd_pc,
                   barrierVars, queueVars, workerRest, setupVars, pc, now,
                   exit, purge_calls,
                   was_running>>

\* Events and purge markers put so far (the stop marker is not counted).
Produced == Cardinality({i \in 1..Len(enq) : enq[i] # NoneItem})

\* event_listener(event): self.queue.put(event)
EventListener ==
    /\ hass_state # "stopped"
    /\ Produced < max_items
    /\ \E e \in bus : Put(e)
    /\ UNCHANGED <<configVars, queryVars, storeVars, hostVars, barrierVars, workerRest,
                   setupVars, async_db_ready, pc, now, exit, purge_calls>>

\* do_purge(now): self.queue.put(purge_task)
DoPurge ==
    /\ purge_timer
    /\ hass_state # "stopped"
    /\ Produced < max_items
    /\ Put(purge_task)
    /\ UNCHANGED <<configVars, queryVars, storeVars, hostVars, barrierVars, workerRest,
                   setupVars, async_db_ready, pc, now, exit, purge_calls>>

\* block_till_done(): a host thread enters self.queue.join().
BarrierCall ==
    /\ barrier_pc # "waiting"
    /\ barrier_pc' = "waiting"
    /\ barrier_mark' = Len(enq)
    /\ UNCHANGED <<configVars, queryVars, storeVars, hostVars, queueVars, workerRest,
                   setupVars, async_db_ready, pc, now, exit, purge_calls>>

\* queue.Queue.join() returns when no task is unfinished.
BarrierReturn ==
    /\ barrier_pc = "waiting"
    /\ unfinished_tasks = 0
    /\ barrier_pc' = "returned"
    /\ UNCHANGED <<configVars, queryVars, storeVars, hostVars, queueVars, workerRest,
                   setupVars, async_db_ready, pc, now, exit, purge_calls,
                   barrier_mark>>


(***************************************************************************)
(* run_information, lines 82-100, called by a thread of the host.          *)
(***************************************************************************)
\* A test that also takes the start itself: at or after recording_start.
InMemoryAtOrAfter(point_in_time) ==
    point_in_time = None \/ point_in_time >= recording_start

\* point_in_time is None or point_in_time > ins.recording_start
InMemory(point_in_time) ==
    point_in_time = None \/ point_in_time > recording_start

\* (recorder_runs.start < point_in_time) & (recorder_runs.end > point_in_time);
\* a comparison with a NULL end is not true.
Covering(table, point_in_time) ==
    {i \in 1..Len(table) :
        /\ table[i].start < point_in_time
        /\ table[i].end # None
        /\ table[i].end > point_in_time}

\* run_information(hass, point_in_time): the in-memory run, or the first row
\* of the query (no order is asked for, so any row that matches), or an
\* exception when there is no session factory to call.
RunInformation ==
    /\ \E point_in_time \in {None} \cup (0..MaxTime) :
          /\ ri_arg' = point_in_time
          /\ IF InMemory(point_in_time)
             THEN /\ ri_outcome' = "in_memory"
                  /\ ri_res' = run_info
             ELSE IF get_session = None
             THEN /\ ri_outcome' = "raised"
                  /\ ri_res' = <<>>
             ELSE /\ ri_outcome' = "queried"
                  /\ IF Covering(runs, point_in_time) = {}
                     THEN ri_res' = <<>>
                     ELSE \E i \in Covering(runs, point_in_time) :
                              ri_res' = <<runs[i]>>
    /\ ri_pc' = pc
    /\ UNCHANGED <<configVars, storeVars, hostVars, barrierVars, setupVars,
                   queueVars, workerRest, async_db_ready, pc, now, exit,
                   purge_calls>>

(***************************************************************************)
(* Recorder.run, lines 220-264: the consume loop.                          *)
(***************************************************************************)
hostAll == <<hostVars, hass_started, async_db_ready>>
SetFate(f) == fate' = [fate EXCEPT ![event_seq] = f]

\* A queue that hands out its newest item.
GetLast(q) == Len(q)

\* queue.Queue.get() takes the item at the head.
GetIndex(q) == 1

\* event = self.queue.get()
QueueGet ==
    /\ pc = "get"
    /\ queue # <<>>
    /\ LET k == GetIndex(queue) IN
          /\ event' = queue[k].item
          /\ event_seq' = queue[k].seq
          /\ queue' = SubSeq(queue, 1, k - 1) \o SubSeq(queue, k + 1, Len(queue))
          /\ fate' = [fate EXCEPT ![queue[k].seq] = "inflight"]
    /\ pc' = "dispatch"
    /\ UNCHANGED <<configVars, queryVars, storeVars, hostAll, barrierVars, setupVars,
                   unfinished_tasks, enq, now, exit, purge_calls>>

\* queue.Queue.task_done()
task_done == unfinished_tasks' = unfinished_tasks - 1

\* if event is None: on to self._close_run()
HandleStop ==
    /\ pc = "dispatch"
    /\ event = NoneItem
    /\ pc' = "close_run"
    /\ UNCHANGED <<configVars, queryVars, storeVars, hostAll, barrierVars, setupVars,
                   queueVars, event, event_seq, now, exit, purge_calls>>

\* elif event is purge_task: on to purge.purge_old_data
HandlePurge ==
    /\ pc = "dispatch"
    /\ event = purge_task
    /\ pc' = "purge"
    /\ UNCHANGED <<configVars, queryVars, storeVars, hostAll, barrierVars, setupVars,
                   queueVars, event, event_seq, now, exit, purge_calls>>

\* elif event.event_type == EVENT_TIME_CHANGED: task_done(); continue
HandleTimeChanged ==
    /\ pc = "dispatch"
    /\ event.kind = "event"
    /\ event.event_type = EVENT_TIME_CHANGED
    /\ task_done
    /\ SetFate("time_changed")
    /\ pc' = "get"
    /\ UNCHANGED <<configVars, queryVars, storeVars, hostAll, barrierVars, setupVars,
                   queue, enq, event, event_seq, now, exit, purge_calls>>

\* (entity_id in self.exclude) or
\* (domain in self.exclude and entity_id not in self.include_e)
FirstIf(entity_id, domain) ==
    \/ In(entity_id, exclude)
    \/ (In(domain, exclude) /\ ~In(entity_id, include_e))

\* The second test without its "and not self.exclude".
SecondIfWithoutExcludeTest(entity_id, domain) ==
    \/ (Truthy(include_d) /\ ~In(domain, include_d))
    \/ (Truthy(include_e) /\ ~In(entity_id, include_e))

\* (self.include_d and domain not in self.include_d) or
\* (self.include_e and entity_id not in self.include_e and not self.exclude)
SecondIf(entity_id, domain) ==
    \/ (Truthy(include_d) /\ ~In(domain, include_d))
    \/ (Truthy(include_e) /\ ~In(entity_id, include_e) /\ ~Truthy(exclude))

\* A filter whose include lists also drop the events that name no entity.
FilteredAlsoWithoutEntity(ev) ==
    IF HasKey(ev.data, ATTR_ENTITY_ID)
    THEN LET entity_id == Lookup(ev.data, ATTR_ENTITY_ID)
             domain == split_entity_id(entity_id)[1]
         IN  FirstIf(entity_id, domain) \/ SecondIf(entity_id, domain)
    ELSE Truthy(include_e) \/ Truthy(include_d)

\* if ATTR_ENTITY_ID in event.data: the two tests that drop the event.
Filtered(ev) ==
    /\ HasKey(ev.data, ATTR_ENTITY_ID)
    /\ LET entity_id == Lookup(ev.data, ATTR_ENTITY_ID)
           domain == split_entity_id(entity_id)[1]
       IN  FirstIf(entity_id, domain) \/ SecondIf(entity_id, domain)

\* A dropped event: self.queue.task_done(); continue
HandleFiltered ==
    /\ pc = "dispatch"
    /\ event.kind = "event"
    /\ event.event_type # EVENT_TIME_CHANGED
    /\ Filtered(event)
    /\ task_done
    /\ SetFate("filtered")
    /\ pc' = "get"
    /\ UNCHANGED <<configVars, queryVars, storeVars, hostAll, barrierVars, setupVars,
                   queue, enq, event, event_seq, now, exit, purge_calls>>

\* An accepted event marked complete before it is stored.
HandleAcceptedDoneEarly ==
    /\ pc = "dispatch"
    /\ event.kind = "event"
    /\ event.event_type # EVENT_TIME_CHANGED
    /\ ~Filtered(event)
    /\ task_done
    /\ pc' = "persist"
    /\ UNCHANGED <<configVars, queryVars, storeVars, hostAll, barrierVars, setupVars,
                   queue, enq, fate, event, event_seq, now, exit,
                   purge_calls>>

\* The filter applied before the test for the time tick.
HandleAcceptedBeforeTypeTest ==
    /\ pc = "dispatch"
    /\ event.kind = "event"
    /\ ~Filtered(event)
    /\ pc' = "persist"
    /\ UNCHANGED <<configVars, queryVars, storeVars, hostAll, barrierVars,
                   setupVars, queueVars, event, event_seq, now, exit,
                   purge_calls>>

\* An event that passes: on to the session scope.
HandleAccepted ==
    /\ pc = "dispatch"
    /\ event.kind = "event"
    /\ event.event_type # EVENT_TIME_CHANGED
    /\ ~Filtered(event)
    /\ pc' = "persist"
    /\ UNCHANGED <<configVars, queryVars, storeVars, hostAll, barrierVars, setupVars,
                   queueVars, event, event_seq, now, exit, purge_calls>>

\* Events.from_event(event): a row without its generated event_id yet.
Events_from_event(ev, seq) ==
    [event_id |-> None, event_type |-> ev.event_type, seq |-> seq]

\* States.from_event(event): a row for the event's entity.
States_from_event(ev, seq) ==
    [state_id |-> None, event_id |-> None,
     entity_id |-> Lookup(ev.data, ATTR_ENTITY_ID), seq |-> seq]

\* A scope that stores the event row and leaves out the state row.
PersistEventOnly ==
    /\ pc = "persist"
    /\ LET dbevent == Events_from_event(event, event_seq)
       IN  events' = Append(events,
                        [dbevent EXCEPT !.event_id = Len(events) + 1])
    /\ SetFate("stored")
    /\ pc' = "task_done"
    /\ UNCHANGED <<configVars, queryVars, runs, states, hostAll, barrierVars,
                   setupVars, queue, unfinished_tasks, enq, event, event_seq,
                   now, exit, purge_calls>>

\* The with block of lines 255-262 and its commit: the rows get their
\* generated keys when the scope flushes them.
Persist ==
    /\ pc = "persist"
    /\ LET dbevent == Events_from_event(event, event_seq)
           dbstate == [States_from_event(event, event_seq)
                          EXCEPT !.event_id = dbevent.event_id]
       IN  /\ events' = Append(events,
                           [dbevent EXCEPT !.event_id = Len(events) + 1])
           /\ states' = IF event.event_type = EVENT_STATE_CHANGED
                        THEN Append(states,
                               [dbstate EXCEPT !.state_id = Len(states) + 1])
                        ELSE states
    /\ SetFate("stored")
    /\ pc' = "task_done"
    /\ UNCHANGED <<configVars, queryVars, runs, hostAll, barrierVars, setupVars,
                   queue, unfinished_tasks, enq, event, event_seq, now, exit,
                   purge_calls>>

\* A failure that is caught in the loop: the item is marked done and the
\* worker goes on to the next one.
PersistFailsRecovered ==
    /\ pc = "persist"
    /\ SetFate("failed")
    /\ task_done
    /\ pc' = "get"
    /\ UNCHANGED <<configVars, queryVars, storeVars, hostAll, barrierVars,
                   setupVars, queue, enq, event, event_seq, now, exit,
                   purge_calls>>

\* The with block raises: the scope rolls back and the exception ends the
\* thread.
PersistFails ==
    /\ pc = "persist"
    /\ SetFate("failed")
    /\ pc' = "done"
    /\ exit' = "exception"
    /\ UNCHANGED <<configVars, queryVars, storeVars, hostAll, barrierVars, setupVars,
                   queue, unfinished_tasks, enq, event, event_seq, now,
                   purge_calls>>

\* self.queue.task_done() of line 264
TaskDone ==
    /\ pc = "task_done"
    /\ task_done
    /\ pc' = "get"
    /\ UNCHANGED <<configVars, queryVars, storeVars, hostAll, barrierVars, setupVars,
                   queue, enq, fate, event, event_seq, now, exit,
                   purge_calls>>

\* purge.purge_old_data(self, self.purge_days); continue
Purge ==
    /\ pc = "purge"
    /\ purge_calls' = purge_calls + 1
    /\ SetFate("purged")
    /\ pc' = "get"
    /\ UNCHANGED <<configVars, queryVars, storeVars, hostAll, barrierVars, setupVars,
                   queue, unfinished_tasks, enq, event, event_seq, now, exit>>

\* purge.purge_old_data raises: the exception ends the thread.
PurgeFails ==
    /\ pc = "purge"
    /\ SetFate("failed")
    /\ pc' = "done"
    /\ exit' = "exception"
    /\ UNCHANGED <<configVars, queryVars, storeVars, hostAll, barrierVars, setupVars,
                   queue, unfinished_tasks, enq, event, event_seq, now,
                   purge_calls>>

\* self._close_run(): end = utcnow() on the current run, saved; then
\* self.run_info = None
CloseRun ==
    /\ pc = "close_run"
    /\ runs' = [runs EXCEPT ![run_info[1].run_id].end = now]
    /\ now' = now + 1
    /\ run_info' = <<>>
    /\ pc' = "close_connection"
    /\ UNCHANGED <<configVars, queryVars, events, states, hostAll, barrierVars,
                   queueVars, event, event_seq, engine, get_session, retry,
                   setupHist, exit, purge_calls>>

\* self._close_connection(): dispose the engine, drop it and the factory.
CloseConnection ==
    /\ pc = "close_connection"
    /\ engine' = None
    /\ get_session' = None
    /\ engines_live' = engines_live - 1
    /\ pc' = "stop_task_done"
    /\ UNCHANGED <<configVars, queryVars, storeVars, hostAll, barrierVars, queueVars,
                   event, event_seq, run_info, retry, attempt, failures,
                   notifications, setups_ok, current_run_id, now, exit,
                   purge_calls,
                   connects, migrate_calls>>

\* self.queue.task_done(); return
StopTaskDone ==
    /\ pc = "stop_task_done"
    /\ task_done
    /\ SetFate("stopped")
    /\ pc' = "done"
    /\ exit' = "closed"
    /\ UNCHANGED <<configVars, queryVars, storeVars, hostAll, barrierVars, setupVars,
                   queue, enq, event, event_seq, now, purge_calls>>

(***************************************************************************)
(* The specification: every operation, under a storage that fails few      *)
(* setup attempts and a bus that fires a few events.                       *)
(***************************************************************************)
SetupLoop == SetupConnection \/ MigrateSchema \/ SetupRun \/ SignalReady

SetupFailure ==
    \/ SetupConnectionFails \/ MigrateSchemaFails
    \/ SetupRunFails \/ SignalReadyFails
    \/ Except

Gate == AddJob \/ AddJobFails \/ WaitStarted \/ Register \/ DbReadySet

HostLife ==
    \/ HassStart \/ HassStop \/ HassStopped
    \/ ShutdownSetResult \/ ShutdownPut \/ ShutdownJoin

Consume ==
    \/ QueueGet
    \/ HandleTimeChanged \/ HandleFiltered \/ HandleAccepted
    \/ Persist \/ PersistFails \/ TaskDone

Purging == DoPurge \/ HandlePurge \/ Purge \/ PurgeFails

Closing == HandleStop \/ CloseRun \/ CloseConnection \/ StopTaskDone

Barrier == BarrierCall \/ BarrierReturn

Next ==
    \/ SetupLoop \/ SetupFailure \/ Gate \/ HostLife
    \/ EventListener \/ Consume \/ Purging \/ Closing \/ Barrier

Spec == Init /\ [][Next]_vars

(***************************************************************************)
(* The setup loop to its end: storage that fails as often as it likes, any *)
(* of the stores an earlier session may have left, a silent bus, no        *)
(* purging configured.                                                     *)
(***************************************************************************)
SetupInit ==
    InitWith({[ie |-> <<>>, id |-> <<>>, xe |-> <<>>, xd |-> <<>>]},
             PriorStores, {None}, 0, SetupFaults, {})

SetupNext ==
    \/ SetupLoop \/ SetupFailure \/ Gate \/ HostLife
    \/ QueueGet \/ Closing

SetupSpec == SetupInit /\ [][SetupNext]_vars

(***************************************************************************)
(* Every filter configuration with lists of at most one entry, every event *)
(* of the model; the storage does not fail during setup, no purging is     *)
(* configured.                                                             *)
(***************************************************************************)
UpToOne(S) == {<<>>} \cup {<<x>> : x \in S}

AllFilterConfigs ==
    [ie : UpToOne(EntityIds), id : UpToOne({Light, Sensor}),
     xe : UpToOne(EntityIds), xd : UpToOne({Light, Sensor})]

FilterInit ==
    InitWith(AllFilterConfigs, {<<>>}, {None}, FilterItems, 0, BusEvents)

FilterNext ==
    \/ SetupLoop \/ Gate \/ HostLife
    \/ EventListener \/ Consume \/ Closing

FilterSpec == FilterInit /\ [][FilterNext]_vars


(***************************************************************************)
(* The consume loop on a storage that is set up at the first attempt: the   *)
(* producers, the worker's handling of every kind of item, failures of the  *)
(* session scope and of the purge routine, and the stop handler.            *)
(***************************************************************************)
ConsumeInit ==
    InitWith({[ie |-> <<LightKitchen>>, id |-> <<>>, xe |-> <<>>,
               xd |-> <<Light>>]},
             {<<Run(1, 1, 2, 1, FALSE), Run(2, 2, None, 2, FALSE)>>},
             {1}, MaxItems, 0, BusEvents)

ConsumeNext ==
    \/ SetupLoop \/ Gate \/ HostLife
    \/ EventListener \/ Consume \/ Purging \/ Closing

ConsumeSpec == ConsumeInit /\ [][ConsumeNext]_vars

(***************************************************************************)
(* The run query: a host thread that calls run_information at any moment   *)
(* of the worker's life, over stores whose earlier runs have room for a     *)
(* point in time strictly inside them; a silent bus, no purging.            *)
(***************************************************************************)
QueryStores ==
    { <<>>,
      <<Run(1, 0, 2, 0, FALSE), Run(2, 2, None, 2, FALSE)>>,
      <<Run(1, 0, None, 0, FALSE)>> }

QueryInit ==
    InitWith({[ie |-> <<>>, id |-> <<>>, xe |-> <<>>, xd |-> <<>>]},
             QueryStores, {None}, 0, MaxFaults, {})

QueryNext ==
    \/ SetupLoop \/ SetupFailure \/ Gate \/ HostLife
    \/ QueueGet \/ Closing \/ Barrier \/ RunInformation

QuerySpec == QueryInit /\ [][QueryNext]_vars

(***************************************************************************)
(* The worker's life under fair scheduling: the worker thread takes its     *)
(* next step whenever it has one, the host's loop runs the callbacks handed *)
(* to it until the host has stopped, the stop handler's thread runs, and    *)
(* the host finishes stopping.  Storage fails at most MaxFaults attempts,   *)
(* so the setup succeeds in the end.  Whether and when the host starts or   *)
(* stops is left open.                                                      *)
(***************************************************************************)
LiveInit ==
    InitWith({[ie |-> <<>>, id |-> <<>>, xe |-> <<>>, xd |-> <<>>]},
             {<<Run(1, 1, 2, 1, FALSE), Run(2, 2, None, 2, FALSE)>>},
             {None}, 0, MaxFaults, {})

\* The steps of the worker thread.
WorkerStep ==
    \/ SetupLoop \/ SetupFailure
    \/ AddJob \/ AddJobFails \/ WaitStarted
    \/ QueueGet \/ Closing

\* The callbacks the worker hands to the host's loop.
LoopCallback == Register \/ DbReadySet

\* The steps of shutdown(event) on the thread that runs it.
ShutdownStep == ShutdownSetResult \/ ShutdownPut \/ ShutdownJoin

LiveNext ==
    \/ WorkerStep \/ LoopCallback \/ ShutdownStep
    \/ HassStart \/ HassStop \/ HassStopped

LiveSpec ==
    /\ LiveInit
    /\ [][LiveNext]_vars
    /\ WF_vars(WorkerStep)
    /\ WF_vars(LoopCallback)
    /\ WF_vars(ShutdownStep)
    /\ WF_vars(HassStopped)

(***************************************************************************)
(* Properties.                                                             *)
(***************************************************************************)
Items == 1..Len(enq)
ToSet(list) == {list[i] : i \in 1..Len(list)}
StoredEventOf(i) == \E k \in 1..Len(events) : events[k].seq = i
StoredStateOf(i) == \E k \in 1..Len(states) : states[k].seq = i
OpenRuns == {i \in 1..Len(runs) : runs[i].end = None}
\* An event that is not a time tick and names an entity.
EntityEvent(i) ==
    /\ enq[i].kind = "event"
    /\ enq[i].event_type # EVENT_TIME_CHANGED
    /\ HasKey(enq[i].data, ATTR_ENTITY_ID)
EntityOf(i) == Lookup(enq[i].data, ATTR_ENTITY_ID)
\* The domain of an entity id: what stands before its first dot.
DomainOf(e) == <<Head(e)>>

\* The three rules of the filter, over the configuration as sets.
Rule1(e, d) ==
    \/ e \in ToSet(exclude)
    \/ (d \in ToSet(exclude) /\ e \notin ToSet(include_e))
Rule2(e, d) == ToSet(include_d) # {} /\ d \notin ToSet(include_d)
Rule3(e, d) ==
    /\ ToSet(include_e) # {}
    /\ e \notin ToSet(include_e)
    /\ ToSet(exclude) = {}
Dropped(e) ==
    Rule1(e, DomainOf(e)) \/ Rule2(e, DomainOf(e)) \/ Rule3(e, DomainOf(e))

\* C1: a dequeued event that is not a time tick and names an entity e is
\* dropped exactly when rule 1, 2 or 3 holds of e and its domain, and is
\* otherwise handed to the session scope, where it is stored unless the
\* storage raises; an event for which a rule holds never has a stored row.
C1_FilterDecision ==
    \A i \in Items :
        EntityEvent(i) =>
            /\ fate[i] = "filtered" => Dropped(EntityOf(i))
            /\ fate[i] \in {"stored", "failed"} => ~Dropped(EntityOf(i))
            /\ (pc = "persist" /\ event_seq = i) => ~Dropped(EntityOf(i))
            /\ (pc = "get" /\ fate[i] \notin {"queued", "filtered"})
                   => (~Dropped(EntityOf(i)) /\ fate[i] = "stored")
            /\ fate[i] = "stored" <=> StoredEventOf(i)
            /\ (StoredEventOf(i) \/ StoredStateOf(i)) => ~Dropped(EntityOf(i))

\* An entity of an excluded domain, named in include_entities, was stored.
C1_Witness ==
    \E i \in Items :
        /\ enq[i] = StateChanged(LightKitchen)
        /\ exclude = <<Light>>
        /\ include_e = <<LightKitchen>>
        /\ fate[i] = "stored"
        /\ StoredEventOf(i)


\* The run of this session has its end set; the connection it used is gone.
RunClosed == current_run_id # None /\ runs[current_run_id].end # None
ConnectionClosed == engine = None /\ get_session = None
\* What is left of an item once the worker has finished with it in order.
Processed == {"time_changed", "filtered", "stored", "purged", "stopped"}

\* C2: once the stop handler has returned and the worker thread has ended
\* in order (by a return, after a run setup that succeeded), the current
\* run's end is set and the connection is closed.
C2_OrderlyShutdownClosesRun ==
    (/\ sd_pc = "returned"
     /\ pc = "done"
     /\ setups_ok > 0
     /\ exit \in {"closed", "shutdown_before_start"})
        => (RunClosed /\ ConnectionClosed)

\* C3: between two items, and after the stop marker, the queue's count of
\* unfinished tasks is the number of items put minus the number of items
\* the worker has processed.
C3_EveryItemMarkedComplete ==
    (pc = "get" \/ (pc = "done" /\ exit = "closed"))
        => unfinished_tasks
             = Len(enq) - Cardinality({i \in Items : fate[i] \in Processed})

\* C5: when the current run has been closed, every item put before the stop
\* marker has been processed; and the connection is disposed only after the
\* run has been closed.
C5_CloseAfterDrain ==
    /\ RunClosed =>
          \A i \in Items, j \in Items :
              (enq[j] = NoneItem /\ i < j) => fate[i] \in Processed
    /\ (setups_ok > 0 /\ engine = None) => RunClosed
    /\ pc = "close_connection" => (RunClosed /\ engine # None)

\* The run was closed after an event put before the stop marker was stored
\* and another was dropped.
C5_Witness ==
    /\ RunClosed
    /\ engine = None
    /\ \E i \in Items, k \in Items, j \in Items :
          /\ i < j /\ k < j /\ enq[j] = NoneItem
          /\ fate[i] = "stored" /\ fate[k] = "filtered"

\* C6: when block_till_done has returned, every item put before the call has
\* been processed: an event is stored (its row is in storage) or was dropped
\* as filtered or as a time tick.
C6_BarrierAfterProcessing ==
    barrier_pc = "returned" =>
        \A i \in 1..barrier_mark :
            /\ fate[i] \in {"stored", "filtered", "time_changed", "stopped"}
            /\ fate[i] = "stored" => StoredEventOf(i)
            /\ enq[i].kind = "event"
                  => fate[i] \in {"stored", "filtered", "time_changed"}

\* The barrier returned after two events put before the call: one stored,
\* one dropped.
C6_Witness ==
    /\ barrier_pc = "returned"
    /\ barrier_mark = 2
    /\ \E i \in 1..2, k \in 1..2 :
          /\ fate[i] = "stored" /\ StoredEventOf(i)
          /\ fate[k] \in {"filtered", "time_changed"}


\* C4: the setup loop gives up: no more than DefaultRetry attempts fail, and
\* at the last of them the worker has notified the user once and has ended;
\* the notification is emitted at no other time and at most once.
C4_BoundedRetry ==
    /\ failures <= DefaultRetry
    /\ notifications <= 1
    /\ failures = DefaultRetry
          => (pc = "done" /\ exit = "failed_fatally" /\ notifications = 1)
    /\ notifications = 1 <=> exit = "failed_fatally"
    /\ exit = "failed_fatally" => (pc = "done" /\ failures = DefaultRetry)

\* Every attempt failed and the worker gave up.
C4_Witness ==
    /\ exit = "failed_fatally"
    /\ failures = DefaultRetry
    /\ connects = 0
    /\ notifications = 1

\* C7: right after a run setup that succeeded, every run that was open
\* before startup is closed as incorrect with end = recording_start, and
\* the one open run in storage is the new run, started at recording_start.
C7_RecoveryAtStartup ==
    pc = "signal" =>
        /\ \A i \in 1..Len(prior_runs) :
              prior_runs[i].end = None =>
                  /\ runs[i].closed_incorrect
                  /\ runs[i].end = recording_start
        /\ Cardinality(OpenRuns) = 1
        /\ \A i \in OpenRuns :
              /\ i = current_run_id
              /\ i > Len(prior_runs)
              /\ runs[i].start = recording_start
              /\ ~runs[i].closed_incorrect
              /\ run_info = <<runs[i]>>

\* The run setup has just closed two runs that earlier sessions left open.
C7_Witness ==
    /\ pc = "signal"
    /\ Cardinality({i \in 1..Len(prior_runs) : prior_runs[i].end = None}) = 2
    /\ \A i \in 1..Len(prior_runs) : runs[i].closed_incorrect

\* C8: from the first run setup that succeeded on, whatever is retried and
\* until the worker has ended, at most one run in storage has no end.
C8_AtMostOneOpenRun == setups_ok > 0 => Cardinality(OpenRuns) <= 1

\* A second run setup succeeded (the first attempt failed after its run
\* setup) and left one open run.
C8_Witness ==
    /\ setups_ok >= 2
    /\ Cardinality(OpenRuns) = 1
    /\ Len(runs) >= Len(prior_runs) + 2

FullAttempt == <<"connect", "migrate", "setup_run", "signal">>

\* C9: readiness is scheduled or set only when the current attempt has
\* connected, then migrated, then set up the run, then signalled, and the
\* worker has not failed fatally; within an attempt the steps come in that
\* order; and the migration is called once for each connect that succeeded,
\* before the run setup.
C9_ReadyAfterFullAttempt ==
    /\ (ready_scheduled \/ async_db_ready) =>
          /\ attempt = FullAttempt
          /\ exit # "failed_fatally"
          /\ setups_ok > 0
    /\ \E n \in 0..Len(FullAttempt) : attempt = SubSeq(FullAttempt, 1, n)
    /\ migrate_calls = connects - (IF pc = "migrate" THEN 1 ELSE 0)
    /\ setups_ok <= migrate_calls
    /\ pc = "setup_run" => attempt = <<"connect", "migrate">>

\* Readiness was set by an attempt that followed failed ones.
C9_Witness ==
    /\ async_db_ready
    /\ failures >= 2
    /\ attempt = FullAttempt

StopMarkers == {i \in Items : enq[i] = NoneItem}

\* C11: the stop handler, once it runs on the host-stop signal, puts the
\* stop marker on the queue (one marker, put before it waits), and it has
\* returned to its caller only if the worker thread has ended.
C11_StopHandlerJoins ==
    /\ sd_pc \in {"idle", "check", "put"} => StopMarkers = {}
    /\ sd_pc \in {"join", "returned"} => Cardinality(StopMarkers) = 1
    /\ sd_pc = "join" => hass_state = "stopping"
    /\ sd_pc = "returned" => pc = "done"

\* The stop handler returned after the worker had stored an event, taken
\* the stop marker and closed.
C11_Witness ==
    /\ sd_pc = "returned"
    /\ exit = "closed"
    /\ \E i \in Items, j \in Items :
          /\ i < j
          /\ fate[i] = "stored"
          /\ enq[j] = NoneItem /\ fate[j] = "stopped"

\* C12: items are processed in the order they were put: the worker has
\* started on an item only if it has finished every item put before it; the
\* queue holds its items in the order they were put; the stored events are
\* in the order their events were put; and while a purge runs every item
\* put before the marker is finished, every stored row belongs to an
\* earlier item, and every item put later is still in the queue.
C12_EnqueueOrder ==
    /\ \A i \in Items, j \in Items :
          (i < j /\ fate[j] # "queued") => fate[i] \in Processed
    /\ \A a \in 1..Len(queue), b \in 1..Len(queue) :
          a < b => queue[a].seq < queue[b].seq
    /\ \A k \in 1..Len(events), l \in 1..Len(events) :
          k < l => events[k].seq < events[l].seq
    /\ pc = "purge" =>
          /\ \A i \in Items : i < event_seq => fate[i] \in Processed
          /\ \A k \in 1..Len(events) : events[k].seq < event_seq
          /\ \A j \in Items : j > event_seq => fate[j] = "queued"

\* An event, then the purge marker, then the stop marker were put, and were
\* stored, purged and taken in that order.
C12_Witness ==
    /\ Len(enq) = 3
    /\ enq[2] = purge_task
    /\ fate = <<"stored", "purged", "stopped">>
    /\ StoredEventOf(1)

\* An event that names no entity.
NoEntityEvent(i) ==
    enq[i].kind = "event" /\ ~HasKey(enq[i].data, ATTR_ENTITY_ID)
\* An event whose type is the time tick.
TimeTick(i) ==
    enq[i].kind = "event" /\ enq[i].event_type = EVENT_TIME_CHANGED
EventRowsOf(i) == {k \in 1..Len(events) : events[k].seq = i}
StateRowsOf(i) == {k \in 1..Len(states) : states[k].seq = i}

\* C13 as stated: every event that names no entity has, once the worker has
\* processed it, exactly one stored event row, whatever the filter is.
C13_NoEntityPersistedOnce ==
    \A i \in Items :
        (NoEntityEvent(i) /\ fate[i] \in Processed)
            => Cardinality(EventRowsOf(i)) = 1

\* C13 amended: every event other than a time tick that names no entity is
\* never dropped by the filter, never has more than one stored event row,
\* and has exactly one once the worker has processed it, whatever the
\* filter configuration is.
C13_NoEntityNoTickPersistedOnce ==
    \A i \in Items :
        (NoEntityEvent(i) /\ ~TimeTick(i)) =>
            /\ fate[i] \notin {"filtered", "time_changed"}
            /\ Cardinality(EventRowsOf(i)) <= 1
            /\ fate[i] \in Processed =>
                   (fate[i] = "stored" /\ Cardinality(EventRowsOf(i)) = 1)
            /\ (pc = "get" /\ fate[i] # "queued") => fate[i] = "stored"
            /\ StateRowsOf(i) = {}

\* An event that names no entity was stored under a filter with an include
\* list and an exclude list.
C13_Witness ==
    \E i \in Items :
        /\ enq[i] = ServiceRegistered
        /\ Truthy(include_e) /\ Truthy(include_d) /\ Truthy(exclude)
        /\ fate[i] = "stored"
        /\ Cardinality(EventRowsOf(i)) = 1

\* C14: a time tick, put on the queue like any other event, has no stored
\* event row and no stored state row at any time, and the worker disposes
\* of it in the branch for the time tick: it is never dropped by the filter
\* and never handed to the session scope.
C14_TimeTickNeverStored ==
    \A i \in Items :
        TimeTick(i) =>
            /\ EventRowsOf(i) = {} /\ StateRowsOf(i) = {}
            /\ fate[i] \in {"queued", "inflight", "time_changed"}
            /\ event_seq = i => pc # "persist"
            /\ (pc = "get" /\ fate[i] # "queued") => fate[i] = "time_changed"

\* A time tick was put and disposed of, under a filter that would drop an
\* event; nothing was stored.
C14_Witness ==
    \E i \in Items :
        /\ enq[i] = TimeChanged
        /\ fate[i] = "time_changed"
        /\ Truthy(include_d)
        /\ events = <<>> /\ states = <<>>
        /\ unfinished_tasks = 0

\* Where the worker is while its run is set up and not yet closed.
RunOpenPcs ==
    {"signal", "add_job", "wait_started", "get", "dispatch", "persist",
     "task_done", "purge", "close_run"}
\* The runs of earlier sessions, as the recovery left them.
PriorRuns == 1..Len(prior_runs)
\* t strictly inside [run.start, run.end]
StrictlyInside(t, run) == run.end # None /\ run.start < t /\ t < run.end
\* The record of the current run as the worker holds it in memory.
IsCurrentRun(res) ==
    /\ Len(res) = 1
    /\ res[1].start = recording_start
    /\ res[1].end = None
    /\ res[1].run_id \in (Len(prior_runs) + 1)..Len(runs)
    /\ ~res[1].closed_incorrect

\* C15 as stated: a call made while the run is open, with no point in time
\* or one at or after recording_start, returns the in-memory current run
\* without a query; a call with a point in time strictly inside an earlier
\* run returns that run.
C15_RunInformation ==
    (ri_outcome # "idle" /\ ri_pc \in RunOpenPcs) =>
        /\ (ri_arg = None \/ ri_arg >= recording_start) =>
              (ri_outcome = "in_memory" /\ IsCurrentRun(ri_res))
        /\ \A i \in PriorRuns :
              (ri_arg # None /\ StrictlyInside(ri_arg, runs[i])) =>
                  ri_res = <<runs[i]>>

\* C15 amended: a call with no point in time or one after recording_start
\* (and no other call) returns the in-memory record without a query, which
\* is the current run while that run is open; any other call made while
\* the run is open queries storage and returns a run with
\* start < t < end or nothing, so for t strictly inside an earlier run it
\* returns that run.
C15_RunInformationAfterStart ==
    ri_outcome # "idle" =>
        /\ ri_outcome = "in_memory"
              <=> (ri_arg = None \/ ri_arg > recording_start)
        /\ (ri_outcome = "in_memory" /\ ri_pc \in RunOpenPcs) =>
              IsCurrentRun(ri_res)
        /\ (ri_outcome # "in_memory" /\ ri_pc \in RunOpenPcs) =>
              ri_outcome = "queried"
        /\ ri_outcome = "queried" =>
              \/ ri_res = <<>>
              \/ Len(ri_res) = 1 /\ StrictlyInside(ri_arg, ri_res[1])
        /\ (ri_outcome = "queried" /\ ri_pc \in RunOpenPcs) =>
              \A i \in PriorRuns :
                  StrictlyInside(ri_arg, runs[i]) => ri_res = <<runs[i]>>

\* While the run was open, a call with a point in time inside the run that an
\* earlier session had left open returned that run, closed as incorrect.
C15_Witness ==
    /\ ri_outcome = "queried"
    /\ ri_pc \in RunOpenPcs
    /\ ri_arg = 2
    /\ prior_runs = <<Run(1, 0, None, 0, FALSE)>>
    /\ ri_res = <<Run(1, 0, recording_start, 0, TRUE)>>

\* What a call of run_information read of the worker's own fields.
Touched ==
    IF ri_outcome = "in_memory" THEN {"run_info"}
    ELSE IF ri_outcome \in {"queried", "raised"} THEN {"get_session"}
    ELSE {}
\* Where the worker is while the pipeline runs: set up and not yet ended.
RunningPcs ==
    RunOpenPcs \cup {"close_connection", "stop_task_done"}

\* C16: no call made by a host thread while the pipeline is running reads
\* the session factory or the in-memory record of the current run.
C16_WorkerOwnsRunAndSession ==
    ri_pc \in RunningPcs => Touched = {}

\* C17: every stored state row carries the generated identifier of the
\* stored event row of the same event: its event_id is not null and is the
\* event_id of the row stored for the event the state row was made from.
C17_StateLinkedToEvent ==
    \A k \in 1..Len(states) :
        /\ states[k].event_id # None
        /\ \E e \in 1..Len(events) :
              /\ events[e].seq = states[k].seq
              /\ events[e].event_id = states[k].event_id

\* A queue item the worker hands to the session scope: an event that is not
\* a time tick and that the filter lets pass.
Accepted(i) ==
    enq[i].kind = "event" /\ ~TimeTick(i) /\ ~Filtered(enq[i])
Stored == {i \in Items : fate[i] = "stored"}

\* C18: storage holds one event row for each accepted event the worker has
\* stored and for nothing else, one state row for each of these that is a
\* state change and for nothing else; an item the worker has gone past is
\* stored if it was accepted; and while the worker holds an item, every row
\* in storage belongs to an item put before it: the rows of an event are
\* committed before the next item is taken.
C18_OneTransactionPerEvent ==
    /\ \A i \in Items :
          /\ Cardinality(EventRowsOf(i)) = (IF i \in Stored THEN 1 ELSE 0)
          /\ Cardinality(StateRowsOf(i))
                = (IF i \in Stored /\ enq[i].event_type = EVENT_STATE_CHANGED
                   THEN 1 ELSE 0)
          /\ i \in Stored => Accepted(i)
          /\ (pc = "get" /\ fate[i] # "queued" /\ Accepted(i))
                => i \in Stored
    /\ Len(events) = Cardinality(Stored)
    /\ Len(states)
          = Cardinality({i \in Stored :
                            enq[i].event_type = EVENT_STATE_CHANGED})
    /\ pc \in {"dispatch", "persist", "purge"} =>
          /\ \A k \in 1..Len(events) : events[k].seq < event_seq
          /\ \A k \in 1..Len(states) : states[k].seq < event_seq
          /\ \A i \in Items : (i < event_seq /\ Accepted(i)) => i \in Stored

\* A state change and an event of another type were accepted and stored:
\* two event rows, one state row.
C18_Witness ==
    /\ Len(events) = 2
    /\ Len(states) = 1
    /\ pc = "get"
    /\ \E i \in Stored, j \in Stored :
          /\ enq[i] = StateChanged(LightKitchen)
          /\ enq[j] = ServiceRegistered

\* The items whose persisting or purging raised.
Failed == {i \in Items : fate[i] = "failed"}

\* C19: once persisting an event or the purge routine has failed, the
\* worker thread has ended in that exception; the failed item left no row;
\* every item put after it is still in the queue and has no row; and a stop
\* handler that waits for the worker can return.
C19_FailureEndsWorker ==
    Failed # {} =>
        /\ pc = "done" /\ exit = "exception"
        /\ Cardinality(Failed) = 1
        /\ \A i \in Failed :
              /\ enq[i].kind \in {"event", "purge_task"}
              /\ EventRowsOf(i) = {} /\ StateRowsOf(i) = {}
              /\ \A j \in Items :
                    j > i =>
                        /\ fate[j] = "queued"
                        /\ \E q \in 1..Len(queue) : queue[q].seq = j
                        /\ EventRowsOf(j) = {} /\ StateRowsOf(j) = {}
        /\ sd_pc = "join" => ENABLED ShutdownJoin

\* Persisting an event failed; an event put later and the stop marker are
\* still in the queue, and the stop handler has returned.
C19_Witness ==
    /\ \E i \in Failed : enq[i].kind = "event"
    /\ sd_pc = "returned"
    /\ Len(queue) = 2
    /\ queue[1].item.kind = "event"
    /\ queue[2].item = NoneItem

\* C20: whenever the host has emitted its stop signal, whatever the worker
\* is doing at that moment, the worker thread ends in time.
C20_StopEndsWorker == (hass_state = "stopping") ~> (pc = "done")

\* C21: at most one engine is created and not disposed at any time, and
\* none is left undisposed once the worker has given up after its last
\* failed attempt.
C21_AtMostOneLiveEngine ==
    /\ engines_live <= 1
    /\ exit = "failed_fatally" => engines_live = 0
====
